---- MODULE Spec2Model ----
(***************************************************************************)
(* Model of the dev-events application core:                               *)
(*   - the cached MongoDB connection (connectDB / disconnectDB),           *)
(*   - the Event pre-save hook (slug resolution, date and time             *)
(*     normalization) over a store with a unique index on slug,            *)
(*   - the Booking pre-save hook (the referenced Event must exist),        *)
(*   - the connection string normalizer (normalizeMongoURI),               *)
(*   - the GET /api/events/[slug] route handler.                           *)
(*                                                                         *)
(* JavaScript runs one job at a time.  A job is the synchronous code       *)
(* between two awaits.  Continuations of settled promises are run from a   *)
(* FIFO job queue, in the order in which they were enqueued; the variable  *)
(* "queue" is that job queue.  Every synchronous segment of the source is  *)
(* one action.                                                             *)
(***************************************************************************)
EXTENDS Naturals, Integers, Sequences, FiniteSets, TLC

\* ------------------------------------------------------------------ bounds
\* number of connectDB / disconnectDB invocations in one behaviour
MaxCalls == 5
\* number of invocations in one behaviour of the specification with fairness
MaxLiveCalls == 4

\* number of Event saves in one behaviour
MaxSaves == 3

\* number of Event saves under way at the same time
MaxActive == 2

Tasks == 1..MaxCalls

Procs == 1..MaxSaves

\* number of Booking saves in one behaviour
MaxBookings == 3

BProcs == 1..MaxBookings

\* number of GET requests in one behaviour
MaxRequests == 2

Reqs == 1..MaxRequests

\* ------------------------------------------------------------------ state
VARIABLES
    conn,            \* globalForMongoose.mongoose.conn    ("null" or a handle)
    promise,         \* globalForMongoose.mongoose.promise ("null" or an attempt)
    connectState,    \* per attempt: state of the promise mongoose.connect(...).then().catch()
    waiters,         \* per attempt: the calls suspended at `await promise`, in await order
    task,            \* per invocation of connectDB / disconnectDB: where it stands
    queue,           \* the job queue: continuations (and scheduled calls) ready to run
    disconnectCalls, \* number of mongoose.disconnect() invocations
    events,          \* the Event collection of the store: a set of records
    save,            \* per Event save: the document in memory and where its save stands
    everHeld,        \* history: the pairs <<_id, slug>> the store has ever held
    bookings,        \* the Booking collection of the store: a set of records
    book,            \* per Booking save: the document in memory and where its save stands
    norm,            \* the connection string handed to normalizeMongoURI and what came back
    request,         \* per GET /api/events/[slug] request: where the handler stands, its response
    thrown,          \* per connect attempt: the error mongoose.connect rejected with
    timezone         \* the time zone of the process (TZ), which `new Date(string)` reads

connVars == <<conn, promise, connectState, waiters, task, queue, disconnectCalls, thrown>>

saveVars == <<events, save, everHeld>>

bookVars == <<bookings, book>>

\* the variables neither the connection cache nor the Event saves touch
otherVars == <<bookings, book, norm, request, timezone>>

vars == <<conn, promise, connectState, waiters, task, queue, disconnectCalls, events, save, everHeld,
          bookings, book, norm, request, thrown, timezone>>

\* The attempt started by call t is named t; the handle it yields is named t too.
Null == 0

NoTask == [op |-> "none", pc |-> "unused", att |-> Null, result |-> [kind |-> "none", id |-> Null]]

Handle(a) == [kind |-> "handle", id |-> a]
Failure(a) == [kind |-> "error", id |-> a]
Void == [kind |-> "void", id |-> Null]
\* disconnectDB rejects with the error mongoose.disconnect() rejected with
DisconnectFailure == [kind |-> "disconnect error", id |-> Null]

\* no document / no record
NoSave == [pc |-> "unused", id |-> Null, isNew |-> FALSE, title |-> <<>>, title0 |-> <<>>,
           date |-> "", date0 |-> "", dateIn |-> "", time |-> "", time0 |-> "", timeIn |-> "",
           slug |-> <<>>, slug0 |-> <<>>,
           base |-> <<>>, cand |-> <<>>, counter |-> 0, probes |-> 0, err |-> "none",
           log |-> <<>>]

NoEvent == [id |-> Null, title |-> <<>>, slug |-> <<>>, date |-> "", time |-> ""]

\* no Booking document
NoBooking == [pc |-> "unused", id |-> Null, isNew |-> FALSE, eventId |-> Null, eventId0 |-> Null,
              err |-> "none"]

\* an Error object: its name and its message, the message as a sequence of words
NoError == [name |-> "none", message |-> <<>>]

\* mongoose.connect cannot reach the server
ServerSelectionError ==
    [name |-> "MongooseServerSelectionError", message |-> <<"connect", "ECONNREFUSED", "127.0.0.1:27017">>]

\* no GET request
NoRequest == [pc |-> "unused", env |-> "", given |-> FALSE, slugIn |-> <<>>, slug |-> <<>>,
              call |-> Null, queried |-> FALSE, error |-> NoError, stage |-> "none",
              status |-> 0, body |-> [message |-> <<>>, error |-> <<>>, event |-> NoEvent]]

\* normalizeMongoURI has not been called
NoNorm == [pc |-> "unused"]

\* the time zones a process is started in: one at UTC, one east of it
Zones == {"UTC", "Asia/Tokyo"}

Init ==
    /\ conn = Null
    /\ promise = Null
    /\ connectState = [a \in Tasks |-> "unused"]
    /\ waiters = [a \in Tasks |-> <<>>]
    /\ task = [t \in Tasks |-> NoTask]
    /\ queue = <<>>
    /\ disconnectCalls = 0
    /\ events = {}
    /\ save = [p \in Procs |-> NoSave]
    /\ everHeld = {}
    /\ bookings = {}
    /\ book = [p \in BProcs |-> NoBooking]
    /\ norm = NoNorm
    /\ request = [q \in Reqs |-> NoRequest]
    /\ thrown = [a \in Tasks |-> NoError]
    /\ timezone \in Zones

\* ------------------------------------------------------------ scheduling
\* Some code (a request handler, a test, a continuation of an earlier call)
\* is about to call connectDB() or disconnectDB(): the call is a job of the
\* queue and runs after the jobs enqueued before it.
NextTask == CHOOSE t \in Tasks : task[t].pc = "unused" /\ \A u \in Tasks : u < t => task[u].pc # "unused"

Schedule(op) ==
    /\ \E t \in Tasks : task[t].pc = "unused"
    /\ task' = [task EXCEPT ![NextTask] = [NoTask EXCEPT !.op = op, !.pc = "scheduled"]]
    /\ queue' = Append(queue, NextTask)
    /\ UNCHANGED <<conn, promise, connectState, waiters, disconnectCalls, events, save, everHeld, otherVars, thrown>>

\* The job at the head of the queue is the one that runs next.
AtHead(t) == queue # <<>> /\ Head(queue) = t

\* ------------------------------------------------------------ connectDB
\* `if (!globalForMongoose.mongoose.promise)`
StartsAttempt_Always(p) == TRUE

StartsAttempt(p) == p = Null

\* `if (globalForMongoose.mongoose.conn)`
Cached_Never(c) == FALSE

Cached(c) == c # Null

\* connectDB up to its first suspension point (or its early return).
connectDB(t) ==
    /\ AtHead(t)
    /\ task[t].pc = "scheduled" /\ task[t].op = "acquire"
    /\ IF Cached(conn)
       THEN \* cached connection: return it immediately
            /\ task' = [task EXCEPT ![t].pc = "done", ![t].result = Handle(conn)]
            /\ UNCHANGED <<promise, connectState, waiters>>
            /\ queue' = Tail(queue)
       ELSE LET starts == StartsAttempt(promise)
                p1 == IF starts THEN t ELSE promise
                cs1 == IF starts THEN [connectState EXCEPT ![t] = "pending"] ELSE connectState
            IN  /\ promise' = p1
                /\ connectState' = cs1
                /\ IF cs1[p1] = "pending"
                   THEN \* await on a pending promise: suspended until it settles
                        /\ waiters' = [waiters EXCEPT ![p1] = Append(@, t)]
                        /\ task' = [task EXCEPT ![t].pc = "awaiting", ![t].att = p1]
                        /\ queue' = Tail(queue)
                   ELSE \* await on a settled promise: the continuation is enqueued at once
                        /\ waiters' = waiters
                        /\ task' = [task EXCEPT ![t].pc = "resuming", ![t].att = p1]
                        /\ queue' = Append(Tail(queue), t)
    /\ UNCHANGED <<conn, disconnectCalls, events, save, everHeld, otherVars, thrown>>

\* `.then((mongooseInstance) => mongooseInstance)`: the attempt succeeds and
\* the continuations of its awaiters are enqueued in await order.
ConnectResolves_Lost(a) ==
    /\ connectState[a] = "pending"
    /\ connectState' = [connectState EXCEPT ![a] = "ok"]
    /\ UNCHANGED <<queue, task, waiters>>
    /\ UNCHANGED <<conn, promise, disconnectCalls, events, save, everHeld, otherVars, thrown>>

ConnectResolves(a) ==
    /\ connectState[a] = "pending"
    /\ connectState' = [connectState EXCEPT ![a] = "ok"]
    /\ queue' = queue \o waiters[a]
    /\ task' = [t \in Tasks |-> IF task[t].pc = "awaiting" /\ task[t].att = a
                                THEN [task[t] EXCEPT !.pc = "resuming"] ELSE task[t]]
    /\ waiters' = [waiters EXCEPT ![a] = <<>>]
    /\ UNCHANGED <<conn, promise, disconnectCalls, events, save, everHeld, otherVars, thrown>>

\* `.catch((error) => { promise = null; ...; throw error; })`
ConnectRejects(a, error) ==
    /\ connectState[a] = "pending"
    /\ connectState' = [connectState EXCEPT ![a] = "failed"]
    /\ thrown' = [thrown EXCEPT ![a] = error]
    /\ promise' = Null
    /\ queue' = queue \o waiters[a]
    /\ task' = [t \in Tasks |-> IF task[t].pc = "awaiting" /\ task[t].att = a
                                THEN [task[t] EXCEPT !.pc = "resuming"] ELSE task[t]]
    /\ waiters' = [waiters EXCEPT ![a] = <<>>]
    /\ UNCHANGED <<conn, disconnectCalls, events, save, everHeld, otherVars>>

\* connectDB after `await globalForMongoose.mongoose.promise`
connectDBResume(t) ==
    /\ AtHead(t)
    /\ task[t].pc = "resuming"
    /\ queue' = Tail(queue)
    /\ IF connectState[task[t].att] = "ok"
       THEN /\ conn' = task[t].att
            /\ task' = [task EXCEPT ![t].pc = "done", ![t].result = Handle(task[t].att)]
            /\ UNCHANGED promise
       ELSE \* catch (error) { promise = null; throw error; }
            /\ promise' = Null
            /\ task' = [task EXCEPT ![t].pc = "done", ![t].result = Failure(task[t].att)]
            /\ UNCHANGED conn
    /\ UNCHANGED <<connectState, waiters, disconnectCalls, events, save, everHeld, otherVars, thrown>>

\* ---------------------------------------------------------- disconnectDB
\* disconnectDB up to `await mongoose.disconnect()` (or its return).
disconnectDB(t) ==
    /\ AtHead(t)
    /\ task[t].pc = "scheduled" /\ task[t].op = "release"
    /\ queue' = Tail(queue)
    /\ IF conn # Null
       THEN /\ disconnectCalls' = disconnectCalls + 1
            /\ task' = [task EXCEPT ![t].pc = "disconnecting", ![t].att = conn]
       ELSE /\ task' = [task EXCEPT ![t].pc = "done", ![t].result = Void]
            /\ UNCHANGED disconnectCalls
    /\ UNCHANGED <<conn, promise, connectState, waiters, events, save, everHeld, otherVars, thrown>>

\* mongoose.disconnect() has completed: the continuation of disconnectDB is enqueued.
DisconnectResolves(t) ==
    /\ task[t].pc = "disconnecting"
    /\ task' = [task EXCEPT ![t].pc = "finishing"]
    /\ queue' = Append(queue, t)
    /\ UNCHANGED <<conn, promise, connectState, waiters, disconnectCalls, events, save, everHeld, otherVars, thrown>>

\* mongoose.disconnect() rejects: the continuation of disconnectDB is enqueued
\* and will rethrow.
DisconnectRejects(t) ==
    /\ task[t].pc = "disconnecting"
    /\ task' = [task EXCEPT ![t].pc = "throwing"]
    /\ queue' = Append(queue, t)
    /\ UNCHANGED <<conn, promise, connectState, waiters, disconnectCalls, events, save, everHeld, otherVars, thrown>>

\* the two assignments after `await mongoose.disconnect()`
ClearedSlots(c, p) == [conn |-> Null, promise |-> Null]

\* disconnectDB after `await mongoose.disconnect()`: the two assignments and
\* the return, or the rejection of the call with the error of the disconnect,
\* the slots left as they are
disconnectDBResume(t) ==
    /\ AtHead(t)
    /\ task[t].pc \in {"finishing", "throwing"}
    /\ queue' = Tail(queue)
    /\ IF task[t].pc = "finishing"
       THEN /\ conn' = ClearedSlots(conn, promise).conn
            /\ promise' = ClearedSlots(conn, promise).promise
            /\ task' = [task EXCEPT ![t].pc = "done", ![t].result = Void]
       ELSE /\ UNCHANGED <<conn, promise>>
            /\ task' = [task EXCEPT ![t].pc = "done", ![t].result = DisconnectFailure]
    /\ UNCHANGED <<connectState, waiters, disconnectCalls, events, save, everHeld, otherVars, thrown>>

NextConn ==
    \/ Schedule("acquire")
    \/ Schedule("release")
    \/ \E t \in Tasks : connectDB(t)
    \/ \E t \in Tasks : connectDBResume(t)
    \/ \E t \in Tasks : disconnectDB(t)
    \/ \E t \in Tasks : disconnectDBResume(t)
    \/ \E a \in Tasks : ConnectResolves(a)
    \/ \E a \in Tasks : ConnectRejects(a, ServerSelectionError)
    \/ \E t \in Tasks : DisconnectResolves(t)
    \/ \E t \in Tasks : DisconnectRejects(t)

SpecConn == Init /\ [][NextConn]_vars

\* The event loop runs the job at the head of the queue, and every connect
\* attempt settles.
Fairness ==
    /\ WF_vars(\E t \in Tasks : connectDB(t))
    /\ WF_vars(\E t \in Tasks : connectDBResume(t))
    /\ WF_vars(\E t \in Tasks : disconnectDB(t))
    /\ WF_vars(\E t \in Tasks : disconnectDBResume(t))
    /\ \A a \in Tasks : WF_vars(ConnectResolves(a) \/ ConnectRejects(a, ServerSelectionError))

\* the calls made so far
Calls == {t \in Tasks : task[t].pc # "unused"}

\* the steps of NextConn, with at most MaxLiveCalls calls
NextConnLive ==
    \/ Cardinality(Calls) < MaxLiveCalls /\ Schedule("acquire")
    \/ Cardinality(Calls) < MaxLiveCalls /\ Schedule("release")
    \/ \E t \in Tasks : connectDB(t)
    \/ \E t \in Tasks : connectDBResume(t)
    \/ \E t \in Tasks : disconnectDB(t)
    \/ \E t \in Tasks : disconnectDBResume(t)
    \/ \E a \in Tasks : ConnectResolves(a)
    \/ \E a \in Tasks : ConnectRejects(a, ServerSelectionError)
    \/ \E t \in Tasks : DisconnectResolves(t)
    \/ \E t \in Tasks : DisconnectRejects(t)

SpecConnLive == Init /\ [][NextConnLive]_vars /\ Fairness


\* ====================================================================
\* Event model: strings are sequences of one-character strings.
\* --------------------------------------------------------------------
Letters == {"a", "b"}
Capitals == {"A", "B"}
Digits == <<"0", "1", "2", "3", "4", "5", "6", "7", "8", "9">>
DigitSet == {Digits[i] : i \in 1..10}

\* \s
IsSpace(c) == c = " "
\* \w
IsWord(c) == c \in Letters \cup Capitals \cup DigitSet \cup {"_"}

Lower(c) == CASE c = "A" -> "a" [] c = "B" -> "b" [] OTHER -> c
toLowerCase(s) == [i \in 1..Len(s) |-> Lower(s[i])]

RECURSIVE trimStart(_)
trimStart(s) == IF s # <<>> /\ IsSpace(Head(s)) THEN trimStart(Tail(s)) ELSE s

RECURSIVE trimEnd(_)
trimEnd(s) == IF s # <<>> /\ IsSpace(s[Len(s)]) THEN trimEnd(SubSeq(s, 1, Len(s) - 1)) ELSE s

trim(s) == trimEnd(trimStart(s))

\* .replace(/[^\w\s-]/g, '')
KeepSlugChar(c) == IsWord(c) \/ IsSpace(c) \/ c = "-"
removeSpecial(s) == SelectSeq(s, KeepSlugChar)

\* .replace(/[\s_-]+/g, '-')
IsSeparator(c) == IsSpace(c) \/ c = "_" \/ c = "-"

RECURSIVE dropSeparators(_)
dropSeparators(s) == IF s # <<>> /\ IsSeparator(Head(s)) THEN dropSeparators(Tail(s)) ELSE s

RECURSIVE collapseSeparators(_)
collapseSeparators(s) ==
    IF s = <<>> THEN <<>>
    ELSE IF IsSeparator(Head(s)) THEN <<"-">> \o collapseSeparators(dropSeparators(s))
    ELSE <<Head(s)>> \o collapseSeparators(Tail(s))

\* .replace(/^-+|-+$/g, '')
RECURSIVE stripLeadingHyphens(_)
stripLeadingHyphens(s) == IF s # <<>> /\ Head(s) = "-" THEN stripLeadingHyphens(Tail(s)) ELSE s

RECURSIVE stripTrailingHyphens(_)
stripTrailingHyphens(s) ==
    IF s # <<>> /\ s[Len(s)] = "-" THEN stripTrailingHyphens(SubSeq(s, 1, Len(s) - 1)) ELSE s

generateSlug(text) ==
    stripTrailingHyphens(stripLeadingHyphens(collapseSeparators(removeSpecial(trim(toLowerCase(text))))))

\* decimal representation of a number, as `${counter}` yields it
RECURSIVE toString(_)
toString(n) == IF n < 10 THEN <<Digits[n + 1]>> ELSE toString(n \div 10) \o <<Digits[(n % 10) + 1]>>

\* slug = `${baseSlug}-${counter}`
Suffixed_FromZero(baseSlug, counter) == baseSlug \o <<"-">> \o toString(counter - 1)

Suffixed(baseSlug, counter) == baseSlug \o <<"-">> \o toString(counter)

\* schema setters: title { trim }, slug { trim, lowercase }
titleSetter(v) == trim(v)
slugSetter(v) == toLowerCase(trim(v))

\* new Date(dateString), isNaN(date.getTime()), toISOString().split('T')[0]
\* over the date strings the model feeds it. A string in the ISO form
\* YYYY-MM-DD is parsed as midnight UTC and comes back as it is; any other
\* parsable string is parsed as midnight of the process's time zone, and
\* toISOString prints the UTC day of that instant: the day before, when the
\* zone is east of UTC.
InvalidDate == "Invalid Date"

IsoDates == {"2024-06-13", "2024-06-14", "2024-10-22"}

EastOfUTC == {"Asia/Tokyo"}

normalizeDate_Lenient(dateString) ==
    CASE dateString = "June 14, 2024" ->
            IF timezone \in EastOfUTC THEN "2024-06-13" ELSE "2024-06-14"
      [] OTHER -> dateString

normalizeDate(dateString) ==
    CASE dateString = "June 14, 2024" ->
            IF timezone \in EastOfUTC THEN "2024-06-13" ELSE "2024-06-14"
      [] dateString \in IsoDates -> dateString
      [] OTHER -> InvalidDate

\* trim, then `new Date("2000-01-01 " + trimmed)` with getHours / getMinutes
\* for a string with am/pm, else the HH:MM prefix with the hours padded to two
\* digits, else the trimmed string; over the time strings the model feeds it
normalizeTime(timeString) ==
    CASE timeString = "9:00 AM" -> "09:00"
      [] timeString = " 2:30 pm " -> "14:30"
      [] timeString = "14:30:00" -> "14:30"
      [] timeString = "9:05" -> "09:05"
      [] timeString = " noon " -> "noon"
      [] OTHER -> timeString

\* the inputs of the model
Titles == { <<"A", "b">>, <<"a", "b", "!">>, <<"a", "b", " ", "1">> }
Dates == { "June 14, 2024", "someday" }
\* those of them that `new Date` does not parse
Unparsable == { "someday" }
Times == { "9:00 AM" }

\* event.isModified(path)
isModifiedTitle(d) == d.title # d.title0
isModifiedDate(d) == d.date # d.date0
isModifiedTime(d) == d.time # d.time0
isModifiedSlug(d) == d.slug # d.slug0

\* `if (event.isNew || event.isModified('title'))`
NeedsSlug_Always(d) == TRUE

NeedsSlug(d) == d.isNew \/ isModifiedTitle(d)

\* `if (!existingEvent || existingEvent._id.toString() === event._id.toString())`
Accepts_NotSelf(existingEvent, id) == existingEvent = NoEvent

Accepts_Inverted(existingEvent, id) == existingEvent = NoEvent \/ existingEvent.id # id

Accepts(existingEvent, id) == existingEvent = NoEvent \/ existingEvent.id = id

\* the unique index on slug: a write of `slug` for record `id` is rejected
\* when another record holds that slug
DuplicateKey_NotUnique(store, id, slug) == FALSE

DuplicateKey(store, id, slug) == \E r \in store : r.id # id /\ r.slug = slug

\* `if (event.isModified('date') || event.isNew) event.date = normalizeDate(event.date)`
dateStep(d) ==
    IF d.isNew \/ isModifiedDate(d)
    THEN IF normalizeDate(d.date) = InvalidDate
         THEN [d EXCEPT !.pc = "failed", !.err = "Invalid date format",
                        !.log = Append(d.log, "date")]
         ELSE [d EXCEPT !.date = normalizeDate(d.date), !.log = Append(d.log, "date")]
    ELSE d

\* `if (event.isModified('time') || event.isNew) event.time = normalizeTime(event.time)`
timeStep(d) ==
    IF d.isNew \/ isModifiedTime(d)
    THEN [d EXCEPT !.time = normalizeTime(d.time), !.log = Append(d.log, "time")]
    ELSE d

\* The pre-save hook from the date normalization on (no suspension point):
\* it ends with the document ready to be written, or throws.
AfterSlug_TimeFirst(d) ==
    IF dateStep(timeStep(d)).pc = "failed"
    THEN dateStep(timeStep(d))
    ELSE [dateStep(timeStep(d)) EXCEPT !.pc = "writing"]

AfterSlug(d) ==
    IF dateStep(d).pc = "failed"
    THEN dateStep(d)
    ELSE [timeStep(dateStep(d)) EXCEPT !.pc = "writing"]

\* The pre-save hook from its start to its first suspension point.
preSave(d) ==
    IF NeedsSlug(d)
    THEN [d EXCEPT !.pc = "probing", !.base = generateSlug(d.title),
                   !.cand = generateSlug(d.title), !.counter = 1]
    ELSE AfterSlug(d)

\* title: `validate: { validator: (value) => value.trim().length > 0 }`
titleValidator(value) == Len(trim(value)) > 0

\* The validation Mongoose runs before the pre-save hook, over the title
\* (`required`, then the validator); a document that passes enters the hook,
\* one that fails makes save() reject before the hook starts.
validate(d) ==
    IF d.title # <<>> /\ titleValidator(d.title)
    THEN preSave(d)
    ELSE [d EXCEPT !.pc = "invalid", !.err = "Title is required"]

NextProc == CHOOSE p \in Procs : save[p].pc = "unused" /\ \A q \in Procs : q < p => save[q].pc # "unused"

\* the saves under way
Active == {p \in Procs : save[p].pc \in {"probing", "writing"}}

\* no save is under way
Idle == Active = {}

\* new Event({title, date, ...}).save()
saveNew(title, date, time) ==
    /\ \E p \in Procs : save[p].pc = "unused"
    /\ Cardinality(Active) < MaxActive
    /\ save' = [save EXCEPT ![NextProc] =
                    validate([NoSave EXCEPT !.id = NextProc, !.isNew = TRUE,
                                           !.title = titleSetter(title),
                                           !.date = date, !.dateIn = date,
                                           !.time = time, !.timeIn = time])]
    /\ UNCHANGED <<events, everHeld>>
    /\ UNCHANGED <<connVars, otherVars>>

\* a stored Event is loaded, some of its fields are assigned, and it is saved
saveExisting(r, title, date, time) ==
    /\ \E p \in Procs : save[p].pc = "unused"
    /\ Cardinality(Active) < MaxActive
    /\ r \in events
    /\ save' = [save EXCEPT ![NextProc] =
                    validate([NoSave EXCEPT !.id = r.id, !.isNew = FALSE,
                                           !.title = titleSetter(title), !.title0 = r.title,
                                           !.date = date, !.date0 = r.date, !.dateIn = date,
                                           !.time = time, !.time0 = r.time, !.timeIn = time,
                                           !.slug = r.slug, !.slug0 = r.slug])]
    /\ UNCHANGED <<events, everHeld>>
    /\ UNCHANGED <<connVars, otherVars>>

\* one turn of the `while (true)` loop: the store answers findOne({ slug }),
\* then the hook accepts the candidate and runs to its end, or tries the next.
findOne(p) ==
    /\ save[p].pc = "probing"
    /\ LET d == save[p]
           found == {r \in events : r.slug = d.cand}
       IN  \E existingEvent \in (IF found = {} THEN {NoEvent} ELSE found) :
              save' = [save EXCEPT ![p] =
                          IF Accepts(existingEvent, d.id)
                          THEN AfterSlug([d EXCEPT !.slug = slugSetter(d.cand),
                                                   !.probes = d.probes + 1,
                                                   !.log = d.log \o <<"probe", "slug">>])
                          ELSE [d EXCEPT !.cand = Suffixed(d.base, d.counter),
                                         !.counter = d.counter + 1,
                                         !.probes = d.probes + 1,
                                         !.log = Append(d.log, "probe")]]
    /\ UNCHANGED <<events, everHeld>>
    /\ UNCHANGED <<connVars, otherVars>>

\* the error Event.findOne / EventModel.findById rejects with when the store
\* cannot answer (MongoNetworkError)
StoreError == "connection 3 to 127.0.0.1:27017 closed"

\* the store does not answer findOne({ slug }): the await throws, the hook
\* rethrows and save() rejects with the store's error, before any assignment
\* to slug, date or time
findOneRejects(p, error) ==
    /\ save[p].pc = "probing"
    /\ save' = [save EXCEPT ![p].pc = "failed", ![p].err = error,
                            ![p].probes = @ + 1, ![p].log = Append(@, "probe")]
    /\ UNCHANGED <<events, everHeld>>
    /\ UNCHANGED <<connVars, otherVars>>

\* the record the store holds for a document
Stored(id) == CHOOSE r \in events : r.id = id

\* the write that follows the hook: an insert of the new document, or an
\* update that sets the modified paths of an existing one
written_AllPaths(d) ==
    [id |-> d.id, title |-> d.title, slug |-> d.slug, date |-> d.date, time |-> d.time]

written(d) ==
    IF d.isNew
    THEN [id |-> d.id, title |-> d.title, slug |-> d.slug, date |-> d.date, time |-> d.time]
    ELSE [id |-> d.id,
          title |-> IF isModifiedTitle(d) THEN d.title ELSE Stored(d.id).title,
          slug |-> IF isModifiedSlug(d) THEN d.slug ELSE Stored(d.id).slug,
          date |-> IF isModifiedDate(d) THEN d.date ELSE Stored(d.id).date,
          time |-> IF isModifiedTime(d) THEN d.time ELSE Stored(d.id).time]

\* the store rejects the write: save() rejects with the store's error, which
\* nothing in the hook or the model catches
rejected_Retry(d) ==
    [d EXCEPT !.pc = "probing", !.cand = Suffixed(d.base, d.counter), !.counter = d.counter + 1]

rejected(d) == [d EXCEPT !.pc = "failed", !.err = "E11000 duplicate key"]

write(p) ==
    /\ save[p].pc = "writing"
    /\ LET d == save[p]
       IN  IF (d.isNew \/ isModifiedSlug(d)) /\ DuplicateKey(events, d.id, d.slug)
           THEN /\ save' = [save EXCEPT ![p] = rejected(d)]
                /\ UNCHANGED <<events, everHeld>>
           ELSE /\ save' = [save EXCEPT ![p].pc = "done", ![p].log = Append(d.log, "write")]
                /\ events' = {r \in events : r.id # d.id} \cup {written(d)}
                /\ everHeld' = everHeld \cup {<<d.id, written(d).slug>>}
    /\ UNCHANGED <<connVars, otherVars>>

\* saves of every title with a date that parses: a new Event, or a stored one
\* given a title and its date assigned or left alone
NextSave ==
    \/ \E title \in Titles, date \in Dates \ Unparsable, time \in Times : saveNew(title, date, time)
    \/ \E r \in events : \E title \in Titles, date \in (Dates \ Unparsable) \cup {r.date} :
          saveExisting(r, title, date, r.time)
    \/ \E p \in Procs : findOne(p)
    \/ \E p \in Procs : findOneRejects(p, StoreError)
    \/ \E p \in Procs : write(p)

SpecSave == Init /\ [][NextSave]_vars

\* saves of every date and time, over two titles with different base slugs
DateTitles == { <<"A", "b">>, <<"a", "b", " ", "1">> }

NextDates ==
    \/ \E title \in DateTitles, date \in Dates, time \in Times : saveNew(title, date, time)
    \/ \E r \in events : \E title \in DateTitles, date \in Dates \cup {r.date}, time \in Times \cup {r.time} :
          saveExisting(r, title, date, time)
    \/ \E p \in Procs : findOne(p)
    \/ \E p \in Procs : findOneRejects(p, StoreError)
    \/ \E p \in Procs : write(p)

SpecDates == Init /\ [][NextDates]_vars

\* saves whose titles include ones made only of characters generateSlug
\* removes, and one the schema rejects
SlugTitles == { <<"!">>, <<"!", " ", "?">>, <<" ">>, <<"a", " ", "-", "_", "B">> }

NextSlug ==
    \/ \E title \in SlugTitles : saveNew(title, "June 14, 2024", "9:00 AM")
    \/ \E r \in events : \E title \in SlugTitles : saveExisting(r, title, r.date, r.time)
    \/ \E p \in Procs : findOne(p)
    \/ \E p \in Procs : findOneRejects(p, StoreError)
    \/ \E p \in Procs : write(p)

SpecSlug == Init /\ [][NextSlug]_vars

\* saves executed one at a time
NextSerial ==
    \/ \E title \in Titles, date \in Dates, time \in Times : Idle /\ saveNew(title, date, time)
    \/ \E r \in events : \E title \in Titles, date \in Dates \cup {r.date}, time \in Times \cup {r.time} :
          Idle /\ saveExisting(r, title, date, time)
    \/ \E p \in Procs : findOne(p)
    \/ \E p \in Procs : findOneRejects(p, StoreError)
    \/ \E p \in Procs : write(p)

SpecSerial == Init /\ [][NextSerial]_vars

\* ------------------------------------------------- connection string
\* Strings are sequences of one-character strings; indices start at 1 and
\* "not found" is 0 where JavaScript says -1.
startsWith(str, prefix) == Len(str) >= Len(prefix) /\ SubSeq(str, 1, Len(prefix)) = prefix

\* str.slice(n): str without its first n characters
slice(str, n) == SubSeq(str, n + 1, Len(str))

\* str.indexOf(ch)
indexOf_Last(str, ch) ==
    IF \E i \in 1..Len(str) : str[i] = ch
    THEN CHOOSE i \in 1..Len(str) : str[i] = ch /\ \A j \in (i + 1)..Len(str) : str[j] # ch
    ELSE 0

indexOf(str, ch) ==
    IF \E i \in 1..Len(str) : str[i] = ch
    THEN CHOOSE i \in 1..Len(str) : str[i] = ch /\ \A j \in 1..(i - 1) : str[j] # ch
    ELSE 0

MongoProtocol == <<"m", "o", "n", "g", "o", "d", "b", ":", "/", "/">>
SrvProtocol == <<"m", "o", "n", "g", "o", "d", "b", "+", "s", "r", "v", ":", "/", "/">>

\* uri.match(/^(mongodb(?:\+srv)?:\/\/)/): the protocol, or <<>> for no match
protocolMatch(uri) ==
    IF startsWith(uri, SrvProtocol) THEN SrvProtocol
    ELSE IF startsWith(uri, MongoProtocol) THEN MongoProtocol
    ELSE <<>>

HexDigits == DigitSet \cup {"A", "B", "C", "D", "E", "F", "a", "b", "c", "d", "e", "f"}

\* /%[0-9A-Fa-f]{2}/.test(str)
isAlreadyEncoded(str) ==
    \E i \in 1..(Len(str) - 2) : str[i] = "%" /\ str[i + 1] \in HexDigits /\ str[i + 2] \in HexDigits

\* encodeURIComponent of one character: letters, digits and - _ . ! ~ * ' ( )
\* stand for themselves, any other character is escaped as % and two hex digits
encodeChar(ch) ==
    CASE ch = " " -> <<"%", "2", "0">>
      [] ch = "#" -> <<"%", "2", "3">>
      [] ch = "%" -> <<"%", "2", "5">>
      [] ch = "&" -> <<"%", "2", "6">>
      [] ch = "+" -> <<"%", "2", "B">>
      [] ch = "/" -> <<"%", "2", "F">>
      [] ch = ":" -> <<"%", "3", "A">>
      [] ch = "=" -> <<"%", "3", "D">>
      [] ch = "?" -> <<"%", "3", "F">>
      [] ch = "@" -> <<"%", "4", "0">>
      [] OTHER -> <<ch>>

RECURSIVE encodeURIComponent(_)
encodeURIComponent(str) ==
    IF str = <<>> THEN <<>> ELSE encodeChar(Head(str)) \o encodeURIComponent(Tail(str))

\* `isAlreadyEncoded(part) ? part : encodeURIComponent(part)`
encoded(part) == IF isAlreadyEncoded(part) THEN part ELSE encodeURIComponent(part)

encodeMongoURICredentials(uri) ==
    LET protocol == protocolMatch(uri)
        afterProtocol == slice(uri, Len(protocol))
        atIndex == indexOf(afterProtocol, "@")
        credentialsPart == SubSeq(afterProtocol, 1, atIndex - 1)
        hostAndPath == slice(afterProtocol, atIndex)
        colonIndex == indexOf(credentialsPart, ":")
        username == SubSeq(credentialsPart, 1, colonIndex - 1)
        password == slice(credentialsPart, colonIndex)
    IN  IF protocol = <<>> THEN uri
        ELSE IF atIndex = 0 THEN uri
        ELSE IF colonIndex = 0
             THEN protocol \o encoded(credentialsPart) \o <<"@">> \o hostAndPath
             ELSE protocol \o encoded(username) \o <<":">> \o encoded(password)
                           \o <<"@">> \o hostAndPath

\* the first index from i on whose character is in `stop`, Len(str) + 1 if none
RECURSIVE upTo(_, _, _)
upTo(str, i, stop) ==
    IF i > Len(str) \/ str[i] \in stop THEN i ELSE upTo(str, i + 1, stop)

\* the first index from i on whose character is not a digit, Len(str) + 1 if none
RECURSIVE pastDigits(_, _)
pastDigits(str, i) ==
    IF i > Len(str) \/ str[i] \notin DigitSet THEN i ELSE pastDigits(str, i + 1)

\* /(mongodb\+srv:\/\/[^@]+@[^:\/]+):\d+(\/|\?|$)/ matched at index i: the
\* first and last index of `:\d+`, or <<>> for no match.  Every quantifier of
\* the pattern is followed by a character it excludes, so the greedy match is
\* the only one.
portMatch(str, i) ==
    LET j == i + Len(SrvProtocol)
        at == upTo(str, j, {"@"})
        colon == upTo(str, at + 1, {":", "/"})
        end == pastDigits(str, colon + 1)
    IN  IF /\ j - 1 <= Len(str)
           /\ SubSeq(str, i, j - 1) = SrvProtocol
           /\ at > j /\ at <= Len(str)
           /\ colon > at + 1 /\ colon <= Len(str)
           /\ str[colon] = ":"
           /\ end > colon + 1
           /\ (end = Len(str) + 1 \/ str[end] \in {"/", "?"})
        THEN <<colon, end - 1>>
        ELSE <<>>

\* normalized.replace(/(...):\d+(\/|\?|$)/, '$1$2'): the leftmost match loses
\* its `:\d+`
replacePort(str) ==
    LET starts == {i \in 1..Len(str) : portMatch(str, i) # <<>>}
    IN  IF starts = {} THEN str
        ELSE LET i == CHOOSE x \in starts : \A y \in starts : x <= y
                 m == portMatch(str, i)
             IN  SubSeq(str, 1, m[1] - 1) \o slice(str, m[2])

normalizeMongoURI(uri) ==
    IF startsWith(encodeMongoURICredentials(uri), SrvProtocol)
    THEN replacePort(encodeMongoURICredentials(uri))
    ELSE encodeMongoURICredentials(uri)

\* The connection strings of the model, by their parts: a scheme, credentials
\* (<<>> for none), a host, a port (<<>> for none) and what follows.
Schemes == { MongoProtocol, SrvProtocol, <<"h", "t", "t", "p", ":", "/", "/">> }
Credentials == { <<>>, <<"u", ":", "p", "#", "@", "s">>,
                 <<"u">>, <<"u", ":", "p">>, <<"u", ":", "p", "#">>, <<"u", ":", "p", "%", "2", "3">>, <<"a", " ", "b">>, <<"u", ":", "p", ":", "q">> }
Hosts == { <<"h">> }
Ports == { <<>>, <<":", "2", "7">> }
Rests == { <<>>, <<"/">>, <<"/", "d">>, <<"?", "w">>, <<"/", "d", "?", "w", ":", "1">>, <<"?", "w", ":", "1">> }

Parts == [scheme : Schemes, credentials : Credentials, host : Hosts, port : Ports, rest : Rests]

\* the connection string written from its parts
Join(x) ==
    x.scheme \o (IF x.credentials = <<>> THEN <<>> ELSE x.credentials \o <<"@">>)
             \o x.host \o x.port \o x.rest

\* process.env.MONGODB_URI is read and normalized
normalize(x) ==
    /\ norm.pc = "unused"
    /\ norm' = [pc |-> "once", parts |-> x, uri |-> Join(x),
                credentialsEncoded |-> encodeMongoURICredentials(Join(x)),
                once |-> normalizeMongoURI(Join(x)), twice |-> <<>>]
    /\ UNCHANGED <<connVars, saveVars, bookVars, request, timezone>>

\* the normalized string is normalized again
normalizeAgain ==
    /\ norm.pc = "once"
    /\ norm' = [norm EXCEPT !.pc = "twice", !.twice = normalizeMongoURI(norm.once)]
    /\ UNCHANGED <<connVars, saveVars, bookVars, request, timezone>>

NextURI ==
    \/ \E x \in Parts : normalize(x)
    \/ normalizeAgain

SpecURI == Init /\ [][NextURI]_vars

\* ------------------------------------------------------------ Booking saves
\* A store that already holds two Events (the records two saves of the title
\* "Ab" leave behind).
SeedEvents ==
    { [id |-> 1, title |-> <<"A", "b">>, slug |-> <<"a", "b">>,
       date |-> "2024-06-14", time |-> "09:00"],
      [id |-> 2, title |-> <<"A", "b">>, slug |-> <<"a", "b", "-", "1">>,
       date |-> "2024-06-14", time |-> "09:00"] }

InitSeeded ==
    /\ conn = Null
    /\ promise = Null
    /\ connectState = [a \in Tasks |-> "unused"]
    /\ waiters = [a \in Tasks |-> <<>>]
    /\ task = [t \in Tasks |-> NoTask]
    /\ queue = <<>>
    /\ disconnectCalls = 0
    /\ events = SeedEvents
    /\ save = [p \in Procs |-> NoSave]
    /\ everHeld = {<<r.id, r.slug>> : r \in SeedEvents}
    /\ bookings = {}
    /\ book = [p \in BProcs |-> NoBooking]
    /\ norm = NoNorm
    /\ request = [q \in Reqs |-> NoRequest]
    /\ thrown = [a \in Tasks |-> NoError]
    /\ timezone \in Zones

\* the identifiers a Booking is given as eventId: those of the seeded Events
\* and one that no Event has
EventIds == {r.id : r \in SeedEvents} \cup {Cardinality(SeedEvents) + 1}

\* booking.isModified('eventId')
isModifiedEventId(b) == b.eventId # b.eventId0

\* `if (booking.isNew || booking.isModified('eventId'))`
NeedsCheck_Always(b) == TRUE

NeedsCheck(b) == b.isNew \/ isModifiedEventId(b)

\* The Booking pre-save hook from its start to its first suspension point, or
\* to its end when it has nothing to check.
bookingPreSave(b) ==
    IF NeedsCheck(b)
    THEN [b EXCEPT !.pc = "checking"]
    ELSE [b EXCEPT !.pc = "writing"]

NextBooking == CHOOSE p \in BProcs : book[p].pc = "unused" /\ \A q \in BProcs : q < p => book[q].pc # "unused"

\* new Booking({ eventId, email }).save()
saveNewBooking(eventId) ==
    /\ \E p \in BProcs : book[p].pc = "unused"
    /\ book' = [book EXCEPT ![NextBooking] =
                    bookingPreSave([NoBooking EXCEPT !.id = NextBooking, !.isNew = TRUE,
                                                     !.eventId = eventId])]
    /\ UNCHANGED <<connVars, saveVars, bookings, norm, request, timezone>>

\* a stored Booking is loaded, its eventId is assigned or left alone, and it is saved
saveExistingBooking(r, eventId) ==
    /\ \E p \in BProcs : book[p].pc = "unused"
    /\ r \in bookings
    /\ book' = [book EXCEPT ![NextBooking] =
                    bookingPreSave([NoBooking EXCEPT !.id = r.id, !.isNew = FALSE,
                                                     !.eventId = eventId, !.eventId0 = r.eventId])]
    /\ UNCHANGED <<connVars, saveVars, bookings, norm, request, timezone>>

\* the store answers EventModel.findById(booking.eventId) and the hook ends:
\* `if (!event) throw new Error(...)`
findById(p) ==
    /\ book[p].pc = "checking"
    /\ LET found == {r \in events : r.id = book[p].eventId}
       IN  \E event \in (IF found = {} THEN {NoEvent} ELSE found) :
              book' = [book EXCEPT ![p] =
                          IF event = NoEvent
                          THEN [book[p] EXCEPT !.pc = "failed", !.err = "Event does not exist"]
                          ELSE [book[p] EXCEPT !.pc = "writing"]]
    /\ UNCHANGED <<connVars, saveVars, bookings, norm, request, timezone>>

\* the store does not answer findById: the await throws, the hook rethrows
\* and save() rejects with the store's error
findByIdRejects(p, error) ==
    /\ book[p].pc = "checking"
    /\ book' = [book EXCEPT ![p].pc = "failed", ![p].err = error]
    /\ UNCHANGED <<connVars, saveVars, bookings, norm, request, timezone>>

\* the write that follows the hook
writeBooking(p) ==
    /\ book[p].pc = "writing"
    /\ bookings' = {r \in bookings : r.id # book[p].id}
                       \cup {[id |-> book[p].id, eventId |-> book[p].eventId]}
    /\ book' = [book EXCEPT ![p].pc = "done"]
    /\ UNCHANGED <<connVars, saveVars, norm, request, timezone>>

\* an Event record is deleted through the Event model; nothing in the store
\* ties the Bookings that reference it to it
deleteEvent(r) ==
    /\ r \in events
    /\ events' = events \ {r}
    /\ UNCHANGED <<connVars, save, everHeld, bookVars, norm, request, timezone>>

NextBook ==
    \/ \E eventId \in EventIds : saveNewBooking(eventId)
    \/ \E r \in bookings, eventId \in EventIds : saveExistingBooking(r, eventId)
    \/ \E p \in BProcs : findById(p)
    \/ \E p \in BProcs : findByIdRejects(p, StoreError)
    \/ \E p \in BProcs : writeBooking(p)
    \/ \E r \in events : deleteEvent(r)

SpecBooking == InitSeeded /\ [][NextBook]_vars

\* ------------------------------------------------- GET /api/events/[slug]
\* The errors of the model.  mongoose.connect rejects because the server is
\* not reachable, because the credentials are refused, or because the
\* connection was closed while the server was being selected.
AuthenticationError ==
    [name |-> "MongoServerError", message |-> <<"bad", "auth", ":", "authentication", "failed">>]

MonitorClosedError ==
    [name |-> "MongooseServerSelectionError",
     message |-> <<"connection", "<monitor>", "to", "127.0.0.1:27017", "closed">>]

ConnectErrors == {ServerSelectionError, AuthenticationError, MonitorClosedError}

\* `import Event, { IEvent } from '@/database/event.model'`: the route takes
\* the default export of the Event model module, which has named exports
\* only, so `Event` is undefined in the handler (when the module is linked at
\* all: a linker that refuses the import leaves no handler to run, which is
\* a behaviour without GET steps). `Event.findOne` then throws:
UndefinedEventError ==
    [name |-> "TypeError",
     message |-> <<"Cannot", "read", "properties", "of", "undefined", "(reading", "'findOne')">>]

\* process.env.NODE_ENV
Environments == {"development", "production"}

\* the values of the route parameter (besides no value at all)
Slugs == { <<>>, <<" ">>, <<" ", "A", "b", " ">>, <<"b", "a">> }

\* error.message.includes(word), the message taken word by word
includes(message, word) == \E i \in 1..Len(message) : message[i] = word

\* NextResponse.json(body, { status })
Response(status, message, error, event) ==
    [status |-> status, body |-> [message |-> message, error |-> error, event |-> event]]

\* `if (!slug || typeof slug !== 'string')`
Missing(given, slug) == ~given \/ slug = <<>>

\* `slug.trim().toLowerCase()`
trimmedSlug(slug) == toLowerCase(trim(slug))

\* the `catch (error)` block
onError(error, env) ==
    IF includes(error.message, "MongoServerError") \/ includes(error.message, "connection")
    THEN Response(503, <<"Database", "connection", "error">>,
                  <<"Unable", "to", "connect", "to", "database">>, NoEvent)
    ELSE IF error.name = "ValidationError" \/ error.name = "CastError"
    THEN Response(400, <<"Invalid", "request", "parameters">>, error.message, NoEvent)
    ELSE Response(500, <<"Internal", "server", "error">>,
                  IF env = "development" THEN error.message
                  ELSE <<"An", "unexpected", "error", "occurred">>,
                  NoEvent)

\* the handler returns a response
Responds(r, response) == [r EXCEPT !.pc = "done", !.status = response.status, !.body = response.body]

\* the handler catches an error thrown by connectDB or by `Event.findOne`
Catches(r, error, stage) ==
    Responds([r EXCEPT !.error = error, !.stage = stage], onError(error, r.env))

NextRequest == CHOOSE q \in Reqs : request[q].pc = "unused" /\ \A u \in Reqs : u < q => request[u].pc # "unused"

\* A request arrives and the handler runs up to `await connectDB()`, or to the
\* return of a 400: the call of connectDB is a job of the queue.
GET(env, given, slug) ==
    /\ \E q \in Reqs : request[q].pc = "unused"
    /\ LET r == [NoRequest EXCEPT !.env = env, !.given = given, !.slugIn = slug]
       IN  IF Missing(given, slug)
           THEN /\ request' = [request EXCEPT ![NextRequest] =
                       Responds(r, Response(400, <<"Slug", "parameter", "is", "required", "and",
                                                   "must", "be", "a", "string">>, <<>>, NoEvent))]
                /\ UNCHANGED <<task, queue>>
           ELSE IF Len(trimmedSlug(slug)) = 0
           THEN /\ request' = [request EXCEPT ![NextRequest] =
                       Responds(r, Response(400, <<"Slug", "cannot", "be", "empty">>, <<>>, NoEvent))]
                /\ UNCHANGED <<task, queue>>
           ELSE /\ \E t \in Tasks : task[t].pc = "unused"
                /\ request' = [request EXCEPT ![NextRequest] =
                       [r EXCEPT !.pc = "connecting", !.slug = trimmedSlug(slug), !.call = NextTask]]
                /\ task' = [task EXCEPT ![NextTask] = [NoTask EXCEPT !.op = "acquire", !.pc = "scheduled"]]
                /\ queue' = Append(queue, NextTask)
    /\ UNCHANGED <<conn, promise, connectState, waiters, disconnectCalls, thrown,
                   saveVars, bookVars, norm, timezone>>

\* the handler after `await connectDB()`: it catches the error connectDB
\* threw, or it goes on to `Event.findOne({ slug: trimmedSlug })`, which
\* throws before any query is issued because Event is undefined; the catch
\* block answers either
GETConnected(q) ==
    /\ request[q].pc = "connecting"
    /\ task[request[q].call].pc = "done"
    /\ LET result == task[request[q].call].result
       IN  request' = [request EXCEPT ![q] =
                          IF result.kind # "handle"
                          THEN Catches(request[q], thrown[result.id], "connect")
                          ELSE Catches(request[q], UndefinedEventError, "lookup")]
    /\ UNCHANGED <<connVars, saveVars, bookVars, norm, timezone>>

NextGet ==
    \/ \E env \in Environments, given \in BOOLEAN, slug \in Slugs : GET(env, given, slug)
    \/ \E t \in Tasks : connectDB(t)
    \/ \E a \in Tasks : ConnectResolves(a)
    \/ \E a \in Tasks, error \in ConnectErrors : ConnectRejects(a, error)
    \/ \E t \in Tasks : connectDBResume(t)
    \/ \E q \in Reqs : GETConnected(q)

SpecGet == InitSeeded /\ [][NextGet]_vars

\* ------------------------------------------------------------ observations
Attempts == {a \in Tasks : connectState[a] # "unused"}
Outstanding == {a \in Tasks : connectState[a] = "pending"}
connectCalls == Cardinality(Attempts)
Acquires == {t \in Tasks : task[t].op = "acquire"}
Releases == {t \in Tasks : task[t].op = "release"}
Called(t) == task[t].pc \notin {"unused", "scheduled"}
Returned(t) == task[t].pc = "done"

\* ------------------------------------------------------------------ claims

\* no connect attempt has failed and disconnectDB has never been called
NoFailureNoRelease ==
    /\ \A a \in Tasks : connectState[a] # "failed"
    /\ \A t \in Releases : ~Called(t)

\* C1: as long as no connect attempt fails and disconnectDB is never called,
\* mongoose.connect is invoked exactly once however many connectDB calls are
\* made (at most once, and once as soon as one call has run), and every call
\* that has returned has returned the handle of that one attempt.
C1_SingleFlight ==
    NoFailureNoRelease =>
        /\ connectCalls <= 1
        /\ (\E t \in Acquires : Called(t)) => connectCalls = 1
        /\ \A t \in Acquires : Returned(t) =>
              /\ task[t].result.kind = "handle"
              /\ \A u \in Acquires : Returned(u) => task[u].result = task[t].result

\* C1 witness: two calls that awaited the attempt and a later call served from
\* the cache have all returned, with no failure and no release.
C1_Witness ==
    /\ NoFailureNoRelease
    /\ \E t, u, v \in Acquires :
          /\ t # u
          /\ Returned(t) /\ Returned(u) /\ Returned(v)
          /\ task[t].att # Null /\ task[u].att # Null /\ task[v].att = Null

\* C2: at most one connect attempt is outstanding (started, not yet settled).
C2_AtMostOneOutstanding == Cardinality(Outstanding) <= 1

\* the calls of attempt a whose continuation has not run yet
Unresumed(a) == {t \in Acquires : task[t].att = a /\ task[t].pc \in {"awaiting", "resuming"}}

\* C3: when a connect attempt fails, every call that awaited it ends with that
\* attempt's error; when the last of them has resumed both cache slots are
\* empty; a connect is only ever invoked by a connectDB call that found both
\* slots empty, and such a call starts a fresh attempt instead of returning an
\* old failure.
C3_FailureClearsCache ==
    [][\A t \in Tasks :
          /\ (task[t].pc = "resuming" /\ task'[t].pc = "done"
                /\ connectState[task[t].att] = "failed") =>
                /\ task'[t].result = Failure(task[t].att)
                /\ (Unresumed(task[t].att) = {t}) => (conn' = Null /\ promise' = Null)
          /\ (connectState[t] = "unused" /\ connectState'[t] # "unused") =>
                /\ task[t].pc = "scheduled" /\ task[t].op = "acquire"
                /\ conn = Null /\ promise = Null
          /\ (task[t].pc = "scheduled" /\ task[t].op = "acquire" /\ task'[t].pc # "scheduled"
                /\ conn = Null /\ promise = Null) =>
                /\ connectState'[t] = "pending"
                /\ task'[t].att = t
      ]_vars

\* C10: disconnectDB called with a cached handle invokes mongoose.disconnect
\* once and, when the call completes, both cache slots are empty; called with
\* no cached handle it invokes no disconnect, returns at once and leaves both
\* slots as they were.
C10_Release ==
    [][\A t \in Tasks :
          /\ (task[t].pc = "scheduled" /\ task[t].op = "release" /\ task'[t].pc # "scheduled") =>
                IF conn = Null
                THEN /\ disconnectCalls' = disconnectCalls
                     /\ conn' = conn /\ promise' = promise
                     /\ task'[t].pc = "done"
                ELSE /\ disconnectCalls' = disconnectCalls + 1
                     /\ task'[t].pc = "disconnecting"
          /\ (task[t].op = "release" /\ task[t].att # Null
                /\ task[t].pc # "done" /\ task'[t].pc = "done") =>
                (conn' = Null /\ promise' = Null)
      ]_vars

\* C11: a connectDB call that finds a cached handle returns that handle in
\* the same job: it starts no connect attempt, does not suspend, and leaves
\* conn and promise (and the attempts and their awaiters) as they were.
C11_CachedFastPath ==
    [][\A t \in Tasks :
          (task[t].pc = "scheduled" /\ task[t].op = "acquire" /\ task'[t].pc # "scheduled"
             /\ conn # Null) =>
                /\ task'[t].pc = "done"
                /\ task'[t].result = Handle(conn)
                /\ task'[t].att = Null
                /\ connectState' = connectState
                /\ waiters' = waiters
                /\ conn' = conn /\ promise' = promise
      ]_vars

\* C11 witness: a call that started no attempt and awaited none has returned
\* the handle that is still cached, after the call that established it.
C11_Witness ==
    \E t, u \in Acquires :
        /\ t < u
        /\ Returned(t) /\ task[t].att = t /\ task[t].result = Handle(t)
        /\ Returned(u) /\ task[u].att = Null /\ task[u].result = Handle(t)
        /\ conn = t /\ promise = t
        /\ connectCalls = 1

\* C22: every connectDB call that has been made eventually returns, with a
\* handle or with the error of the attempt it awaited, provided the event
\* loop keeps running jobs and every connect attempt settles.
C22_AcquireCompletes ==
    \A t \in Tasks :
        (task[t].op = "acquire" /\ task[t].pc # "unused")
            ~> (task[t].pc = "done" /\ task[t].result.kind \in {"handle", "error"})

\* C22 witness: a call that awaited an attempt started by another call has
\* returned although the promise slot no longer holds that attempt and a
\* release has run in between.
C22_Witness ==
    \E t \in Acquires, u \in Releases :
        /\ Returned(t)
        /\ task[t].att # Null /\ task[t].att # t
        /\ promise # task[t].att
        /\ Returned(u) /\ task[u].att = task[t].att


\* a disconnectDB call has invoked mongoose.disconnect on handle h
TornDown(h) ==
    \E u \in Releases : task[u].att = h /\ task[u].pc \in {"disconnecting", "finishing", "throwing", "done"}

\* C23: once a disconnectDB call has invoked mongoose.disconnect on a handle,
\* no connectDB call returns that handle and no resumed call puts it into
\* the conn slot.
C23_NoTornDownHandle ==
    [][/\ \A t \in Tasks :
             (task[t].op = "acquire" /\ task[t].pc # "done" /\ task'[t].pc = "done"
                /\ task'[t].result.kind = "handle") =>
                    ~TornDown(task'[t].result.id)
       /\ \A t \in Tasks :
             (task[t].pc = "resuming" /\ task'[t].pc = "done" /\ conn' # Null) =>
                    ~TornDown(conn')
      ]_vars

\* -------------------------------------------------------- claims: Event saves

\* C4: no two stored Event records have the same slug.
C4_UniqueSlugs == \A r1, r2 \in events : r1.slug = r2.slug => r1 = r2

\* C4 witness: two records are stored and a racing save of a colliding slug
\* has been turned down by the store.
C4_Witness ==
    /\ Cardinality(events) >= 2
    /\ \E p \in Procs : save[p].pc = "failed" /\ save[p].err = "E11000 duplicate key"

\* the probe loop of save p exits by accepting its candidate
AcceptsCandidate(p) ==
    /\ save[p].pc = "probing"
    /\ save'[p].pc # "probing"
    /\ \E i \in 1..Len(save'[p].log) : save'[p].log[i] = "slug"

\* C5: when the probe loop accepts a candidate, no stored record other than
\* the one being saved holds it; the loop exits in no other way than by
\* accepting (or by the failure of a probe).
C5_AcceptedIsFree ==
    [][\A p \in Procs :
          /\ AcceptsCandidate(p) =>
                /\ ~ \E r \in events : r.id # save[p].id /\ r.slug = save[p].cand
                /\ save'[p].slug = save[p].cand
          /\ (save[p].pc = "probing" /\ save'[p].pc # "probing" /\ ~AcceptsCandidate(p)) =>
                (save'[p].pc = "failed" /\ save'[p].err = StoreError)
      ]_vars

\* C5 witness: one save has accepted a suffixed candidate after finding the
\* base slug taken by another record, and a retitled record has been
\* accepted because the probe found the record itself.
C5_Witness ==
    /\ \E p \in Procs : /\ save[p].pc \in {"writing", "done"}
                        /\ save[p].isNew /\ save[p].probes >= 2
    /\ \E p \in Procs : /\ save[p].pc = "writing"
                        /\ ~save[p].isNew /\ isModifiedTitle(save[p])
                        /\ save[p].probes = 1
                        /\ \E r \in events : r.id = save[p].id /\ r.slug = save[p].slug

\* C6: the write of a new Event whose slug another record holds is rejected
\* with a duplicate-key error and stores nothing, and a failed save takes no
\* further step: it is neither caught nor retried.
C6_DuplicateKeyNotRetried ==
    [][\A p \in Procs :
          /\ (save[p].pc = "writing" /\ save'[p].pc # "writing" /\ save[p].isNew
                /\ \E r \in events : r.slug = save[p].slug) =>
                /\ save'[p].pc = "failed"
                /\ save'[p].err = "E11000 duplicate key"
                /\ events' = events
          /\ save[p].pc = "failed" => save'[p] = save[p]
      ]_vars

\* C6 witness: two new Events with the same title both resolved the base slug
\* with one probe each; the first write was stored, the second was rejected.
C6_Witness ==
    \E p, q \in Procs :
        /\ p # q
        /\ save[p].isNew /\ save[q].isNew
        /\ save[p].title = save[q].title
        /\ save[p].slug = save[q].slug
        /\ save[p].probes = 1 /\ save[q].probes = 1
        /\ save[p].pc = "done"
        /\ save[q].pc = "failed" /\ save[q].err = "E11000 duplicate key"

\* the slugs held by records other than `id`
OtherSlugs(id) == {r.slug : r \in {x \in events : x.id # id}}

\* base, or base-k for the smallest k >= 1 such that base-k is not taken
RECURSIVE FirstFreeSuffix(_, _, _)
FirstFreeSuffix(base, k, taken) ==
    IF (base \o <<"-">> \o toString(k)) \notin taken
    THEN base \o <<"-">> \o toString(k)
    ELSE FirstFreeSuffix(base, k + 1, taken)

ExpectedSlug(base, taken) == IF base \notin taken THEN base ELSE FirstFreeSuffix(base, 1, taken)

\* C7: with saves executed one at a time, the slug a new Event is about to be
\* written with is its base slug if no other record holds it, and otherwise
\* base-k for the smallest k >= 1 that no other record holds.
C7_SerialSlug ==
    \A p \in Procs :
        (save[p].pc = "writing" /\ save[p].isNew) =>
            save[p].slug = ExpectedSlug(generateSlug(save[p].title), OtherSlugs(save[p].id))

\* C7 witness: three records with the same title hold ab, ab-1 and ab-2.
C7_Witness ==
    \E r1, r2, r3 \in events :
        /\ r1.title = r2.title /\ r2.title = r3.title
        /\ r1.id < r2.id /\ r2.id < r3.id
        /\ r1.slug = <<"a", "b">>
        /\ r2.slug = <<"a", "b", "-", "1">>
        /\ r3.slug = <<"a", "b", "-", "2">>

\* C8: a save of an existing Event that does not modify the title issues no
\* probe, keeps the document's slug, and its write leaves the stored slug as
\* it was; only a save of a new Event or of a modified title probes.
C8_UntouchedTitleKeepsSlug ==
    [][\A p \in Procs :
          LET d == save'[p]
          IN  /\ (d.pc # "unused" /\ ~d.isNew /\ ~isModifiedTitle(d)) =>
                    /\ d.probes = 0 /\ d.pc # "probing"
                    /\ d.slug = d.slug0
              /\ (save[p].pc = "writing" /\ d.pc = "done" /\ ~d.isNew /\ ~isModifiedTitle(d)) =>
                    \A r \in events : r.id = d.id =>
                        \E r2 \in events' : r2.id = r.id /\ r2.slug = r.slug
              /\ d.probes > 0 => (d.isNew \/ isModifiedTitle(d))
      ]_vars

\* C8 witness: an existing Event saved with another date string and its
\* title untouched has been written without a probe, and its record still
\* holds its slug.
C8_Witness ==
    \E p \in Procs :
        /\ save[p].pc = "done"
        /\ ~save[p].isNew /\ ~isModifiedTitle(save[p])
        /\ save[p].dateIn # save[p].date0
        /\ save[p].probes = 0
        /\ \E r \in events : r.id = save[p].id /\ r.slug = save[p].slug0

\* C9 as stated: the slug of a stored record is changed only by a save of
\* that record that gave it a new title, and no slug value is ever held by
\* two different records, not even at different times.
C9_NeverMutatedNeverReused ==
    [][/\ \A r \in events, r2 \in events' :
             (r.id = r2.id /\ r.slug # r2.slug) =>
                 \E p \in Procs : /\ save[p].pc = "writing" /\ save'[p].pc = "done"
                                  /\ save[p].id = r.id
                                  /\ isModifiedTitle(save[p])
       /\ \A x, y \in everHeld' : x[2] = y[2] => x[1] = y[1]
      ]_vars

\* slug is base, or base with a numeric suffix
IsResolvedFrom(slug, base) ==
    \/ slug = base
    \/ \E k \in 1..(MaxSaves + 1) : slug = base \o <<"-">> \o toString(k)

\* C9 as amended: a record gets a slug it did not hold only by the write of a
\* save that created it or modified its title; the slug is then the one that
\* save resolved from the title (the base slug or the base with a numeric
\* suffix), and no other record holds it at that time.
C9_SlugChangesOnlyWithTitle ==
    [][\A r2 \in events' :
          (~ \E r \in events : r.id = r2.id /\ r.slug = r2.slug) =>
              /\ \E p \in Procs :
                    /\ save[p].pc = "writing" /\ save'[p].pc = "done"
                    /\ save[p].id = r2.id
                    /\ save[p].isNew \/ isModifiedTitle(save[p])
                    /\ r2.slug = save[p].slug
                    /\ IsResolvedFrom(r2.slug, generateSlug(save[p].title))
              /\ ~ \E r \in events : r.id # r2.id /\ r.slug = r2.slug
      ]_vars

\* C9 witness: a record was retitled and got a new slug, and the slug it gave
\* up is now held by a different record.
C9_Witness ==
    \E x, y \in everHeld :
        /\ x[2] = y[2] /\ x[1] # y[1]
        /\ \E r \in events : r.id = y[1] /\ r.slug = y[2]
        /\ \E r \in events : r.id = x[1] /\ r.slug # x[2]

\* the hook of save p has just run to its end (it threw, or the document is
\* ready to be written)
HookEnds(p) == save[p].pc \in {"unused", "probing"} /\ save'[p].pc \in {"writing", "failed"}

\* save p carries a date that is new or modified and does not parse
BadDate(d) == (d.isNew \/ d.dateIn # d.date0) /\ d.dateIn \in Unparsable

\* C13 as stated: a save whose date is new or modified and does not parse
\* fails with the format error at the end of its hook and stores nothing; a
\* failed save takes no further step (it is not retried), so its record is never
\* written.
C13_InvalidDateFails ==
    [][\A p \in Procs :
          /\ (HookEnds(p) /\ BadDate(save'[p])) =>
                /\ save'[p].pc = "failed"
                /\ save'[p].err = "Invalid date format"
                /\ events' = events
          /\ (save[p].pc = "failed" /\ save[p].err = "Invalid date format") =>
                save'[p] = save[p]
      ]_vars

\* C13 as amended: a save whose date is new or modified and does not parse
\* fails at the end of its hook and stores nothing: with the format error
\* when its slug step is over (or it owes none), with the store's error when
\* a probe of its slug step was rejected before the date was looked at. A
\* failed save takes no further step (it is not retried), so its record is
\* never written.
C13_InvalidDateNeverWritten ==
    [][\A p \in Procs :
          /\ (HookEnds(p) /\ BadDate(save'[p])) =>
                /\ save'[p].pc = "failed"
                /\ events' = events
                /\ IF save[p].pc = "probing" /\ ~AcceptsCandidate(p)
                   THEN save'[p].err = StoreError /\ save'[p].date = save'[p].dateIn
                   ELSE save'[p].err = "Invalid date format"
          /\ (save[p].pc = "failed" /\ BadDate(save[p])) => save'[p] = save[p]
          /\ BadDate(save[p]) => save'[p].pc \notin {"writing", "done"}
      ]_vars

\* C13 witness: a stored Event re-saved with an unparsable date has failed
\* with the format error while its record keeps the date it had, and a new
\* Event with an unparsable date has failed at a rejected probe and has no
\* record.
C13_Witness ==
    /\ \E p \in Procs :
          /\ save[p].pc = "failed" /\ save[p].err = "Invalid date format"
          /\ ~save[p].isNew /\ save[p].dateIn = "someday"
          /\ \E r \in events : r.id = save[p].id /\ r.date = save[p].date0
    /\ \E p \in Procs :
          /\ save[p].pc = "failed" /\ save[p].err = StoreError
          /\ save[p].isNew /\ save[p].dateIn = "someday"
          /\ ~ \E r \in events : r.id = save[p].id

\* position of a step of the save in the prescribed order
Rank(step) ==
    CASE step = "probe" -> 1
      [] step = "slug" -> 2
      [] step = "date" -> 3
      [] step = "time" -> 4
      [] step = "write" -> 5

\* the steps a save has taken are in the prescribed order, none but the probe
\* taken twice
InOrder(log) ==
    \A i, j \in 1..Len(log) :
        i < j => \/ Rank(log[i]) < Rank(log[j])
                 \/ log[i] = "probe" /\ log[j] = "probe"

Took(d, step) == \E i \in 1..Len(d.log) : d.log[i] = step

\* the steps the hook of d owes before the write
Owes(d, step) ==
    CASE step = "slug" -> d.isNew \/ isModifiedTitle(d)
      [] step = "date" -> d.isNew \/ d.dateIn # d.date0
      [] step = "time" -> d.isNew \/ d.timeIn # d.time0

\* C19: within one Event save the steps are taken in the order probes, slug,
\* date normalization, time normalization, write; the document is handed to
\* the store only after every step its hook owes has been taken; a date that
\* fails to normalize is the last step of the save, and a probe that fails is
\* the last step too: slug, date and time are then as they were.
C19_StepOrder ==
    \A p \in Procs :
        LET d == save[p]
        IN  /\ InOrder(d.log)
            /\ d.pc = "probing" => \A i \in 1..Len(d.log) : d.log[i] = "probe"
            /\ (d.pc \in {"writing", "done"} \/ Took(d, "write")) =>
                  \A step \in {"slug", "date", "time"} : Owes(d, step) => Took(d, step)
            /\ Took(d, "write") <=> d.pc = "done"
            /\ (d.pc = "failed" /\ d.err = "Invalid date format") =>
                  /\ d.log[Len(d.log)] = "date"
                  /\ ~Took(d, "time") /\ ~Took(d, "write")
            /\ (d.pc = "failed" /\ d.err = StoreError) =>
                  /\ d.log[Len(d.log)] = "probe"
                  /\ \A step \in {"slug", "date", "time", "write"} : ~Took(d, step)
                  /\ d.slug = d.slug0 /\ d.date = d.dateIn /\ d.time = d.timeIn

\* C19 witness: one save took its probe, the slug, the date, the time and
\* the write, in that order, another stopped at its date after two probes and
\* its slug, and a third stopped at its second probe.
C19_Witness ==
    /\ \E p \in Procs : save[p].log = <<"probe", "slug", "date", "time", "write">>
    /\ \E p \in Procs : /\ save[p].log = <<"probe", "probe", "slug", "date">>
                        /\ save[p].pc = "failed"
    /\ \E p \in Procs : /\ save[p].log = <<"probe", "probe">>
                        /\ save[p].pc = "failed"

\* the stored records other than the one being saved whose slug is the base
\* slug of d or that base with a numeric suffix
Family(d) == {r \in events : r.id # d.id /\ IsResolvedFrom(r.slug, d.base)}

\* C20: with saves executed one at a time (the store does not change while a
\* slug is being resolved), a save has issued at most n + 1 probes, where n is
\* the number of other stored records whose slug is the base slug or the base
\* with a numeric suffix; it has issued at most n while it is still probing.
C20_ProbeBound ==
    \A p \in Procs :
        /\ save[p].pc = "probing" => save[p].probes <= Cardinality(Family(save[p]))
        /\ save[p].pc = "writing" => save[p].probes <= Cardinality(Family(save[p])) + 1

\* C20 witness: with two other records holding ab and ab-1, a save resolved
\* its slug with exactly three probes.
C20_Witness ==
    \E p \in Procs :
        /\ save[p].pc = "writing"
        /\ Cardinality(Family(save[p])) = 2
        /\ save[p].probes = 3
        /\ save[p].slug = <<"a", "b", "-", "2">>

\* the shape of a slug: lowercase letters, digits and single hyphens, with a
\* letter or digit at both ends
WellFormed(slug) ==
    /\ slug # <<>>
    /\ \A i \in 1..Len(slug) : slug[i] \in Letters \cup DigitSet \cup {"-"}
    /\ slug[1] # "-" /\ slug[Len(slug)] # "-"
    /\ \A i \in 1..(Len(slug) - 1) : ~(slug[i] = "-" /\ slug[i + 1] = "-")

\* C24: the slug of every stored Event is non-empty and made only of
\* lowercase letters, digits and single hyphens, with no hyphen at either end.
C24_WellFormedSlugs == \A r \in events : WellFormed(r.slug)

\* ----------------------------------------------------- claims: Booking saves

\* the hook of Booking save p has just run to its end
BookingHookEnds(p) == book[p].pc \in {"unused", "checking"} /\ book'[p].pc \in {"writing", "failed"}

\* the Event the document of Booking save p references is stored
EventExists(p) == \E r \in events : r.id = book'[p].eventId

\* C12 as stated: whatever the save (a creation or a re-save), its hook ends
\* with the document ready to be written only if the referenced Event is
\* stored at that time; otherwise the save fails with an error, stores
\* nothing, and takes no further step.
C12_SavedOnlyIfEventExists ==
    [][\A p \in BProcs :
          /\ (BookingHookEnds(p) /\ ~EventExists(p)) =>
                /\ book'[p].pc = "failed"
                /\ bookings' = bookings
          /\ book[p].pc = "failed" => book'[p] = book[p]
      ]_vars

\* C12 as amended: the hook of a save that creates the Booking or modifies
\* its eventId ends with the document ready to be written only if the
\* referenced Event is stored when the store answers the check; otherwise
\* (the Event is not stored, or the store does not answer) the save fails
\* with an error and stores nothing; the hook of a re-save that leaves
\* eventId alone issues no check and hands the document to the store whether
\* or not the Event still exists.
C12_CheckedWhenNewOrRetargeted ==
    [][\A p \in BProcs :
          /\ (BookingHookEnds(p) /\ (book'[p].isNew \/ isModifiedEventId(book'[p]))) =>
                /\ book[p].pc = "checking"
                /\ IF book'[p].pc = "writing"
                   THEN EventExists(p)
                   ELSE /\ book'[p].pc = "failed"
                        /\ bookings' = bookings
                        /\ \/ book'[p].err = "Event does not exist" /\ ~EventExists(p)
                           \/ book'[p].err = StoreError
                /\ ~EventExists(p) => book'[p].pc = "failed"
          /\ (book[p].pc = "unused" /\ book'[p].pc # "unused"
                /\ ~book'[p].isNew /\ ~isModifiedEventId(book'[p])) =>
                book'[p].pc = "writing"
          /\ book[p].pc = "failed" => book'[p] = book[p]
      ]_vars

\* C12 witness: a Booking was re-saved with its eventId untouched after its
\* Event had been deleted, and the re-save was stored; a Booking of an Event
\* that does not exist was rejected.
C12_Witness ==
    /\ \E p \in BProcs :
          /\ book[p].pc = "done"
          /\ ~book[p].isNew /\ ~isModifiedEventId(book[p])
          /\ ~ \E r \in events : r.id = book[p].eventId
          /\ [id |-> book[p].id, eventId |-> book[p].eventId] \in bookings
    /\ \E p \in BProcs :
          /\ book[p].pc = "failed" /\ book[p].err = "Event does not exist"
          /\ book[p].isNew

\* ------------------------------------------------ claims: connection string

\* C14: normalizing a normalized connection string gives it back.
C14_Idempotent == norm.pc = "twice" => norm.twice = norm.once

\* the connection string of parts x, its port left out
WithoutPort(x) == Join([x EXCEPT !.port = <<>>])

\* C15: of a mongodb+srv:// string whose host is followed by a port, normalize
\* returns the string without the port and otherwise as the credential
\* encoding leaves it; of a mongodb:// string of that shape it returns what
\* the credential encoding leaves, the port included.
C15_PortStripped ==
    (norm.pc # "unused" /\ norm.parts.port # <<>>) =>
        /\ norm.parts.scheme = SrvProtocol =>
              norm.once = encodeMongoURICredentials(WithoutPort(norm.parts))
        /\ norm.parts.scheme = MongoProtocol =>
              norm.once = encodeMongoURICredentials(norm.uri)

\* ch occurs in str
Occurs(ch, str) == \E i \in 1..Len(str) : str[i] = ch

\* the scheme prefix of the connection string is one the encoder recognizes
Recognized == norm.parts.scheme \in {MongoProtocol, SrvProtocol}

\* the connection string after its scheme prefix
AfterScheme == SubSeq(norm.uri, Len(norm.parts.scheme) + 1, Len(norm.uri))

\* the position of the first "@" after the scheme prefix
FirstAt == CHOOSE i \in 1..Len(AfterScheme) :
               AfterScheme[i] = "@" /\ \A j \in 1..(i - 1) : AfterScheme[j] # "@"

\* that "@" and everything after it
FromFirstAt == SubSeq(AfterScheme, FirstAt, Len(AfterScheme))

\* what the encoder returned between the scheme prefix and that "@"
EncodedSegment ==
    SubSeq(norm.credentialsEncoded, Len(norm.parts.scheme) + 1,
           Len(norm.credentialsEncoded) - Len(FromFirstAt))

\* C21: of a connection string with a recognized scheme prefix and an "@",
\* the credential encoding returns the prefix, then a credentials segment
\* without "@" (and without ":" when the given segment has none), then the
\* first "@" of the given string and everything after it, verbatim; it returns
\* any other string unchanged.
C21_OnlyCredentialsChange ==
    norm.pc # "unused" =>
        IF Recognized /\ Occurs("@", AfterScheme)
        THEN /\ Len(norm.credentialsEncoded) >= Len(norm.parts.scheme) + Len(FromFirstAt)
             /\ SubSeq(norm.credentialsEncoded, 1, Len(norm.parts.scheme)) = norm.parts.scheme
             /\ SubSeq(norm.credentialsEncoded,
                       Len(norm.credentialsEncoded) - Len(FromFirstAt) + 1,
                       Len(norm.credentialsEncoded)) = FromFirstAt
             /\ ~Occurs("@", EncodedSegment)
             /\ ~Occurs(":", SubSeq(AfterScheme, 1, FirstAt - 1)) => ~Occurs(":", EncodedSegment)
        ELSE norm.credentialsEncoded = norm.uri

\* C21 witness: a string whose password holds "#" and a second "@" came back
\* with "#" escaped and everything from the first "@" on as it was.
C21_Witness ==
    /\ norm.pc # "unused"
    /\ norm.uri = <<"m", "o", "n", "g", "o", "d", "b", ":", "/", "/", "u", ":", "p", "#", "@", "s", "@", "h", ":", "2", "7", "/", "d">>
    /\ norm.credentialsEncoded = <<"m", "o", "n", "g", "o", "d", "b", ":", "/", "/", "u", ":", "p", "%", "2", "3", "@", "s", "@", "h", ":", "2", "7", "/", "d">>

\* ------------------------------------------------------ claims: GET handler

\* the request has been answered
Answered(q) == request[q].pc = "done"

\* the route parameter of the request is absent, empty or only whitespace
Blank(q) == ~request[q].given \/ \A i \in 1..Len(request[q].slugIn) : IsSpace(request[q].slugIn[i])

\* the slug the request asks for: trimmed and in lower case
Wanted(q) == toLowerCase(trim(request[q].slugIn))

\* C16: a request whose slug is absent, empty or only whitespace is answered
\* 400 and the handler neither calls connectDB nor queries the store; any
\* other request calls connectDB and, when connectDB has returned a handle,
\* queries the store and is answered 200 with the record whose slug is the
\* trimmed, lower-cased parameter, or 404 when no record has that slug.
C16_SlugLookup ==
    \A q \in Reqs :
        /\ (request[q].pc # "unused" /\ Blank(q)) =>
              /\ Answered(q) /\ request[q].status = 400
              /\ request[q].call = Null /\ ~request[q].queried
        /\ (request[q].pc # "unused" /\ ~Blank(q)) =>
              /\ request[q].call # Null
              /\ request[q].queried => task[request[q].call].result.kind = "handle"
        /\ (Answered(q) /\ ~Blank(q) /\ task[request[q].call].result.kind = "handle") =>
              /\ request[q].queried
              /\ IF \E r \in events : r.slug = Wanted(q)
                 THEN /\ request[q].status = 200
                      /\ request[q].body.event \in events
                      /\ request[q].body.event.slug = Wanted(q)
                 ELSE /\ request[q].status = 404
                      /\ request[q].body.event = NoEvent

\* the three categories of failure
Connectivity(q) ==
    /\ request[q].error # NoError
    /\ \/ request[q].stage = "connect"
       \/ request[q].error.name \in {"MongoNetworkError", "MongooseServerSelectionError"}

Validation(q) ==
    \/ request[q].error = NoError /\ Blank(q)
    \/ /\ request[q].error # NoError /\ request[q].stage # "connect"
       /\ request[q].error.name \in {"ValidationError", "CastError"}

Failed(q) == Answered(q) /\ (request[q].error # NoError \/ Blank(q))

\* C17: every failure of a request is answered with the status of its
\* category: 503 for a failure to reach the store (any failed connectDB), 400
\* for an invalid input, 500 for anything else.
C17_Classification ==
    \A q \in Reqs :
        Failed(q) =>
            request[q].status = (IF Connectivity(q) THEN 503
                                 ELSE IF Validation(q) THEN 400
                                 ELSE 500)

\* the requests differ at most in the message of the error the handler caught
SameButMessage(q, u) ==
    /\ request[q].env = request[u].env
    /\ request[q].given = request[u].given
    /\ request[q].slugIn = request[u].slugIn
    /\ request[q].stage = request[u].stage
    /\ request[q].error.name = request[u].error.name

\* C18: outside development the response to a failed request does not carry
\* the message of the error, and two failed requests that differ only in that
\* message get the same response.
C18_MessageWithheld ==
    \A q, u \in Reqs :
        (Failed(q) /\ request[q].env # "development" /\ request[q].error # NoError) =>
            /\ request[q].body.error # request[q].error.message
            /\ (Failed(u) /\ SameButMessage(q, u)) =>
                  (request[u].status = request[q].status /\ request[u].body = request[q].body)

====
